---- MODULE Spec2Model ----
(***************************************************************************)
(* Model of server.js: the cursor pagination fetcher (fetchAllOrders), the *)
(* dashboard endpoint GET /api/orders and the two export endpoints         *)
(* POST /export-orders and POST /export-orders-excel.                      *)
(*                                                                         *)
(* Every handler is an async function: it runs atomically between two      *)
(* awaits, so each action below is one such run (from the arrival of an    *)
(* event to the next await or to the end of the handler).                  *)
(*                                                                         *)
(* JavaScript values: an object is a record whose absent properties are    *)
(* absent from its DOMAIN (Has/Get); null and the empty string are both    *)
(* "" where only their truthiness is read; strings are TLA+ strings.       *)
(***************************************************************************)
EXTENDS Integers, Sequences, FiniteSets, TLC

(***************************************************************************)
(* Program constants and bounds                                            *)
(***************************************************************************)
\* const MAX_PAGES = 100 (server.js:64)
MAX_PAGES == 100

\* the page size of limit=250 and of orders.length < 250 (server.js:74, 120)
PAGE_LIMIT == 250

\* the largest number of full pages with a next link the upstream serves to
\* one fetch under Spec (the upstream's data set is finite)
MaxFull == 100

\* the same, for each of the two concurrent exports of SpecExport
ExportMaxFull == 1

\* the HTTP requests in flight at the server
Requests == {1, 2}

VARIABLES
    handler,      \* r -> the route that serves request r ("none": no request)
    reqBody,      \* r -> req.query / req.body
    upstream,     \* r -> the data set the upstream holds for r's query
    pc,           \* r -> where the handler of r is suspended
    queryParams,  \* r -> the argument of fetchAllOrders
    allOrders,    \* r -> let allOrders
    pageInfo,     \* r -> let pageInfo ("" is null)
    hasNextPage,  \* r -> let hasNextPage
    pageCount,    \* r -> let pageCount
    requests,     \* r -> the endpoints requested so far, in order
    responses,    \* r -> the responses and errors received so far, in order
    delays,       \* r -> the number of 500 ms delays started
    warned,       \* r -> console.warn of the page limit was called
    thrown,       \* r -> the message of the Error fetchAllOrders threw ("" none)
    outcome,      \* r -> how fetchAllOrders ended: "pending", "returned", "threw"
    csvData,      \* r -> const csvData / the rows added to the worksheet
    file,         \* the content of orders_export.csv
    res           \* r -> the HTTP response sent

fetchVars == <<queryParams, allOrders, pageInfo, hasNextPage, pageCount,
               requests, responses, delays, warned, thrown, outcome>>
vars == <<handler, reqBody, upstream, pc, queryParams, allOrders, pageInfo,
          hasNextPage, pageCount, requests, responses, delays, warned, thrown,
          outcome, csvData, file, res>>

(***************************************************************************)
(* JavaScript helpers                                                      *)
(***************************************************************************)
\* o.f is not undefined
Has(o, f) == f \in DOMAIN o

\* o.f || d, for a property whose defined values are non-empty strings
GetOr(o, f, d) == IF Has(o, f) /\ o[f] # "" THEN o[f] ELSE d

\* s holds no element twice
NoDuplicates(s) == Cardinality({s[i] : i \in DOMAIN s}) = Len(s)

(***************************************************************************)
(* The upstream API (the environment)                                      *)
(***************************************************************************)
\* the cursor the upstream hands out for page n
Cursor(n) == "c" \o ToString(n)

\* a link of a Link header: <url?...page_info=c...>; rel="..."
\* (page_info "" : the url holds no page_info parameter)
Link(rel, c) == [rel |-> rel, page_info |-> c]

\* The orders of a page. A page is described by
\*   [t |-> "range", base, len]  : len orders with ids base+1 .. base+len,
\*                                 the first of them with one line item
\*   [t |-> "list", base, items] : explicit orders (ids base+1 ..)
\*   [t |-> "raw", items]        : explicit orders as given (an order may
\*                                 lack its id)
\*   [t |-> "nofield"]           : a body without an orders property
\*   [t |-> "nobody"]            : a response without a JSON body (data null)
RangeOrder(base, i) ==
    IF i = 1 THEN [id |-> base + i, name |-> "#" \o ToString(base + i),
                   created_at |-> "2024-01-15T23:30:00Z",
                   line_items |-> <<[id |-> "9001", sku |-> "S1", quantity |-> 2]>>]
             ELSE [id |-> base + i]

PageOrders(page) ==
    CASE page.t = "range" -> [i \in 1..page.len |-> RangeOrder(page.base, i)]
      [] page.t = "list"  ->
            [i \in 1..Len(page.items) |->
                [f \in DOMAIN page.items[i] \cup {"id"} |->
                    IF f = "id" THEN page.base + i ELSE page.items[i][f]]]
      [] page.t = "raw"   -> page.items
      [] OTHER -> <<>>

\* the number of orders of a page (PageOrders without building the orders)
PageLen(page) ==
    CASE page.t = "range" -> page.len
      [] page.t = "list"  -> Len(page.items)
      [] page.t = "raw"   -> Len(page.items)
      [] OTHER -> 0

\* the Link header of the n-th page when a next page exists: Shopify sends the
\* previous relation first, from page 2 on
ContinueLink(n) ==
    IF n = 1 THEN <<Link("next", Cursor(n + 1))>>
             ELSE <<Link("previous", Cursor(n - 1)), Link("next", Cursor(n + 1))>>

\* a 2xx response
Ok(page, link) == [ok |-> TRUE, page |-> page, link |-> link]

\* the cursor of the next relation of a Link header the upstream sent ("": the
\* header names no next page)
NextCursorSent(link) ==
    IF \E i \in DOMAIN link : link[i].rel = "next"
    THEN link[CHOOSE i \in DOMAIN link : link[i].rel = "next"].page_info
    ELSE ""

\* Link headers besides ContinueLink: a previous relation alone, and a next
\* relation whose url holds no page_info after a previous one that holds one
\* (<<>> is a response without a Link header)
PreviousOnly(n) == <<Link("previous", Cursor(n - 1))>>
NextWithoutCursor(n) == <<Link("previous", Cursor(n - 1)), Link("next", "")>>

\* n orders starting after base
Range(base, len) == [t |-> "range", base |-> base, len |-> len]

\* The data set the upstream holds for a request is described by
\*   first : the identifiers of its orders start after first
\*   full  : the number of full pages with a usable next link it can serve
\*   ends  : which last pages it can serve besides the explicit ones
\*   lists : the short explicit pages it can serve
\*   raws  : (optional) the short pages of orders as given it can serve
\*   fails : whether its requests can fail
\* The 2xx responses to the n-th request of r that end the pagination: a full
\* page that names no usable next page, a page of 249 orders (with a next
\* cursor, or repeating the identifiers of page 1), a body without an orders
\* property, and the short explicit pages of the data set.
LastResponses(r, n) ==
    LET base == upstream[r].first + (n - 1) * PAGE_LIMIT
    IN (IF upstream[r].ends
          THEN { Ok(Range(base, PAGE_LIMIT), <<>>),
                 Ok(Range(base, PAGE_LIMIT), PreviousOnly(n)),
                 Ok(Range(base, PAGE_LIMIT), NextWithoutCursor(n)),
                 Ok(Range(base, PAGE_LIMIT - 1), ContinueLink(n)),
                 Ok(Range(upstream[r].first, PAGE_LIMIT - 1), <<>>),
                 Ok([t |-> "nofield"], ContinueLink(n)),
                 Ok([t |-> "list", base |-> base, items |-> <<>>], ContinueLink(n)) }
          ELSE {})
       \cup { Ok([t |-> "list", base |-> base, items |-> it], <<>>) :
                it \in upstream[r].lists }
       \cup { Ok([t |-> "raw", items |-> it], <<>>) :
                it \in IF Has(upstream[r], "raws") THEN upstream[r].raws ELSE {} }

\* the 2xx responses to the n-th request of r. A full page with a usable next
\* link is served only while the data set has full pages left.
OkResponses(r, n) ==
    (IF n <= upstream[r].full
       THEN {Ok(Range(upstream[r].first + (n - 1) * PAGE_LIMIT, PAGE_LIMIT),
                ContinueLink(n))}
       ELSE {})
    \cup LastResponses(r, n)

\* what axios rejects with: a timeout, a network error, or an HTTP error
\* status with its body (data): JSON with an errors property that is a string
\* or an object, JSON without one, or text that is not JSON
HttpError(status, data) ==
    [ok |-> FALSE, code |-> IF status >= 500 THEN "ERR_BAD_RESPONSE" ELSE "ERR_BAD_REQUEST",
     message |-> "Request failed with status code " \o ToString(status),
     status |-> status, data |-> data]

Errors ==
    { [ok |-> FALSE, code |-> "ECONNABORTED", message |-> "timeout of 60000ms exceeded"],
      [ok |-> FALSE, code |-> "ENOTFOUND", message |-> "getaddrinfo ENOTFOUND"],
      HttpError(429, [t |-> "json", errors |-> [t |-> "str", v |-> "Exceeded 2 calls per second"]]),
      HttpError(401, [t |-> "json", errors |-> [t |-> "str", v |-> "Invalid API key or access token"]]),
      HttpError(403, [t |-> "json", errors |-> [t |-> "str", v |-> "Forbidden"]]),
      HttpError(400, [t |-> "json", errors |-> [t |-> "obj", v |-> "created_at_min: is invalid"]]),
      HttpError(502, [t |-> "json", error |-> "Bad Gateway"]),
      HttpError(503, [t |-> "text", v |-> "<html>Service Unavailable</html>"]) }

\* a 2xx response without a JSON body (response.data is null)
NoBody == Ok([t |-> "nobody"], <<>>)

\* the failures of a request of r
Failures(r) ==
    IF upstream[r].fails = "any" THEN Errors \cup {NoBody}
    ELSE {e \in Errors : Has(e, "status") /\ e.status = 429}

(***************************************************************************)
(* fetchAllOrders (server.js:59-150)                                       *)
(***************************************************************************)
\* one key=value parameter of a query string
Param(k, v) == [k |-> k, v |-> v]

\* mutant of WhileCond: the page ceiling is not tested
WhileCond_NoCeiling(h, c) == h

\* while (hasNextPage && pageCount < MAX_PAGES)
WhileCond(h, c) == h /\ c < MAX_PAGES

\* mutant of Endpoint: the cursor is appended to the query parameters
Endpoint_KeepsFilters(pi, qp) ==
    IF pi # "" THEN qp \o <<Param("page_info", pi)>> ELSE qp

\* the endpoint of the next request: orders.json?limit=250&page_info=...
\* when a cursor is held, orders.json?${queryParams} otherwise
Endpoint(pi, qp) ==
    IF pi # "" THEN <<Param("limit", "250"), Param("page_info", pi)>> ELSE qp

\* const orders = response.data.orders || []
ResponseOrders(resp) == PageOrders(resp.page)

\* mutant of Concat: the new page is put in front
Concat_Prepend(all, orders) == orders \o all

\* allOrders = allOrders.concat(orders)
Concat(all, orders) == all \o orders

\* linkHeader && linkHeader.includes('rel="next"')
HasNextRel(link) == \E i \in DOMAIN link : link[i].rel = "next"

\* linkHeader.match(/<[^>]*page_info=([^>&]+)[^>]*>; rel="next"/): group 1 of
\* the leftmost link with a page_info parameter that is followed by
\* ; rel="next" ("" : no match)
NextLinkMatch(link) ==
    LET hits == {i \in DOMAIN link : link[i].rel = "next" /\ link[i].page_info # ""}
    IN IF hits = {} THEN ""
       ELSE link[CHOOSE i \in hits : \A j \in hits : i <= j].page_info

\* pageInfo after the link header was read
NextPageInfo(pi, link) ==
    IF HasNextRel(link) /\ NextLinkMatch(link) # "" THEN NextLinkMatch(link) ELSE pi

\* mutant of NextHasNextPage: a full page counts as short (<= for <)
NextHasNextPage_OffByOne(link, n) ==
    /\ \E i \in DOMAIN link : link[i].rel = "next" /\ link[i].page_info # ""
    /\ ~(n <= PAGE_LIMIT)

\* mutant of NextHasNextPage: the short page test is missing
NextHasNextPage_NoShortCheck(link, n) ==
    \E i \in DOMAIN link : link[i].rel = "next" /\ link[i].page_info # ""

\* mutant of NextHasNextPage: the link header is not consulted
NextHasNextPage_IgnoresLink(link, n) == ~(n < PAGE_LIMIT)

\* mutant of NextHasNextPage: a next relation counts without a cursor match
NextHasNextPage_NoMatchCheck(link, n) ==
    /\ \E i \in DOMAIN link : link[i].rel = "next"
    /\ ~(n < PAGE_LIMIT)

\* hasNextPage at the end of an iteration that received n orders (it was true
\* at the iteration's start)
NextHasNextPage(link, n) ==
    /\ HasNextRel(link) /\ NextLinkMatch(link) # ""
    /\ ~(n < PAGE_LIMIT)

\* mutant of NeedDelay: the page ceiling is not tested before the delay
NeedDelay_IgnoresCeiling(h, c) == h

\* if (hasNextPage && pageCount < MAX_PAGES) await the 500 ms delay
NeedDelay(h, c) == h /\ c < MAX_PAGES

\* mutant of PageLimitReached: the ceiling itself does not count (> for >=)
PageLimitReached_Strict(c) == c > MAX_PAGES

\* mutant of PageLimitReached: the warning is never logged
PageLimitReached_Never(c) == FALSE

\* if (pageCount >= MAX_PAGES) console.warn(...)
PageLimitReached(c) == c >= MAX_PAGES

\* String(x) of the errors property of an error body
JsString(x) == IF x.t = "str" THEN x.v ELSE "[object Object]"

TimeoutMessage == "Request timeout - try selecting a smaller date range"
RateLimitMessage == "Shopify API rate limit exceeded - please wait a moment and try again"
AuthMessage == "Authentication failed - check your Shopify credentials"

\* the message of the Error the catch block throws for the error e
MapError(e) ==
    IF Has(e, "code") /\ e.code = "ECONNABORTED" THEN TimeoutMessage
    ELSE IF Has(e, "status") /\ e.status = 429 THEN RateLimitMessage
    ELSE IF Has(e, "status") /\ e.status = 401 THEN AuthMessage
    ELSE IF Has(e, "data") /\ Has(e.data, "errors") /\ JsString(e.data.errors) # ""
         THEN JsString(e.data.errors)
    ELSE IF e.message # "" THEN e.message
    ELSE "Failed to fetch orders from Shopify"

\* response.data is null: reading .orders throws a TypeError inside the try
NullDataError ==
    [ok |-> FALSE, message |-> "Cannot read properties of null (reading 'orders')"]

\* mutant of Loop: the request after the next is issued along with the next
Loop_IssuesTwo(r, h, c, pi, qp) ==
    IF h /\ c < MAX_PAGES
    THEN /\ pageCount' = [pageCount EXCEPT ![r] = c + 1]
         /\ requests' = [requests EXCEPT ![r] =
                            Append(Append(@, Endpoint(pi, qp)), Endpoint(pi, qp))]
         /\ pc' = [pc EXCEPT ![r] = "await"]
         /\ UNCHANGED <<warned, outcome>>
    ELSE /\ pageCount' = [pageCount EXCEPT ![r] = c]
         /\ requests' = requests
         /\ warned' = [warned EXCEPT ![r] = c >= MAX_PAGES]
         /\ pc' = [pc EXCEPT ![r] = "returned"]
         /\ outcome' = [outcome EXCEPT ![r] = "returned"]

\* The while test with the locals h, c, pi of request r, and what follows it
\* up to the next await: the next request is issued, or the loop ends, the
\* page limit warning is logged and allOrders is returned.
Loop(r, h, c, pi, qp) ==
    IF WhileCond(h, c)
    THEN /\ pageCount' = [pageCount EXCEPT ![r] = c + 1]
         /\ requests' = [requests EXCEPT ![r] = Append(@, Endpoint(pi, qp))]
         /\ pc' = [pc EXCEPT ![r] = "await"]
         /\ UNCHANGED <<warned, outcome>>
    ELSE /\ pageCount' = [pageCount EXCEPT ![r] = c]
         /\ requests' = requests
         /\ warned' = [warned EXCEPT ![r] = PageLimitReached(c)]
         /\ pc' = [pc EXCEPT ![r] = "returned"]
         /\ outcome' = [outcome EXCEPT ![r] = "returned"]

\* fetchAllOrders(qp) is called: the locals are initialised and the loop is
\* entered (server.js:59-87)
CallFetch(r, qp) ==
    /\ queryParams' = [queryParams EXCEPT ![r] = qp]
    /\ allOrders' = [allOrders EXCEPT ![r] = <<>>]
    /\ pageInfo' = [pageInfo EXCEPT ![r] = ""]
    /\ hasNextPage' = [hasNextPage EXCEPT ![r] = TRUE]
    /\ Loop(r, TRUE, 0, "", qp)
    /\ UNCHANGED <<responses, delays, thrown>>

\* axios.get resolves with a 2xx response: the rest of the iteration
\* (server.js:89-127), then the delay or the next while test
Response(r) ==
    /\ pc[r] = "await"
    /\ \E resp \in OkResponses(r, pageCount[r]) :
        /\ responses' = [responses EXCEPT ![r] = Append(@, resp)]
        /\ LET orders == ResponseOrders(resp)
               pi == NextPageInfo(pageInfo[r], resp.link)
               h == NextHasNextPage(resp.link, Len(orders))
           IN /\ allOrders' = [allOrders EXCEPT ![r] = Concat(@, orders)]
              /\ pageInfo' = [pageInfo EXCEPT ![r] = pi]
              /\ hasNextPage' = [hasNextPage EXCEPT ![r] = h]
              /\ IF NeedDelay(h, pageCount[r])
                 THEN /\ delays' = [delays EXCEPT ![r] = @ + 1]
                      /\ pc' = [pc EXCEPT ![r] = "delay"]
                      /\ UNCHANGED <<pageCount, requests, warned, outcome>>
                 ELSE /\ delays' = delays
                      /\ Loop(r, h, pageCount[r], pi, queryParams[r])
    /\ UNCHANGED <<handler, reqBody, upstream, queryParams, thrown, csvData, file, res>>

\* the 500 ms timer fires: the next while test (server.js:126, 67-87)
DelayElapsed(r) ==
    /\ pc[r] = "delay"
    /\ Loop(r, hasNextPage[r], pageCount[r], pageInfo[r], queryParams[r])
    /\ UNCHANGED <<handler, reqBody, upstream, queryParams, allOrders, pageInfo,
                   hasNextPage, responses, delays, thrown, csvData, file, res>>

\* mutant of RequestFails: the catch block returns what was accumulated
RequestFails_ReturnsPartial(r) ==
    /\ pc[r] = "await"
    /\ \E e \in Failures(r) : responses' = [responses EXCEPT ![r] = Append(@, e)]
    /\ pc' = [pc EXCEPT ![r] = "returned"]
    /\ outcome' = [outcome EXCEPT ![r] = "returned"]
    /\ UNCHANGED <<handler, reqBody, upstream, queryParams, allOrders, pageInfo,
                   hasNextPage, pageCount, requests, delays, warned, thrown,
                   csvData, file, res>>

\* axios.get rejects, or the response has no body: the catch block throws
\* (server.js:136-149)
RequestFails(r) ==
    /\ pc[r] = "await"
    /\ \E e \in Failures(r) :
        /\ responses' = [responses EXCEPT ![r] = Append(@, e)]
        /\ thrown' = [thrown EXCEPT ![r] = MapError(IF e.ok THEN NullDataError ELSE e)]
    /\ pc' = [pc EXCEPT ![r] = "threw"]
    /\ outcome' = [outcome EXCEPT ![r] = "threw"]
    /\ UNCHANGED <<handler, reqBody, upstream, queryParams, allOrders, pageInfo,
                   hasNextPage, pageCount, requests, delays, warned, csvData, file, res>>

(***************************************************************************)
(* GET /api/orders (server.js:205-236)                                     *)
(***************************************************************************)
\* let queryParams = 'limit=250&status=any' and the two date bounds of
\* req.query that are given (status is read and not used)
ApiQueryParams(q) ==
    <<Param("limit", "250"), Param("status", "any")>>
    \o (IF GetOr(q, "created_at_min", "") # ""
          THEN <<Param("created_at_min", q.created_at_min)>> ELSE <<>>)
    \o (IF GetOr(q, "created_at_max", "") # ""
          THEN <<Param("created_at_max", q.created_at_max)>> ELSE <<>>)

\* the handler up to await fetchAllOrders(queryParams)
ApiOrders(r) ==
    /\ handler[r] = "api" /\ pc[r] = "start"
    /\ CallFetch(r, ApiQueryParams(reqBody[r]))
    /\ UNCHANGED <<handler, reqBody, upstream, csvData, file, res>>

\* fetchAllOrders returned: res.json({success, count, orders})
ApiRespond(r) ==
    /\ handler[r] = "api" /\ pc[r] = "returned"
    /\ res' = [res EXCEPT ![r] = [status |-> 200,
                                  body |-> [success |-> TRUE,
                                            count |-> Len(allOrders[r]),
                                            orders |-> allOrders[r]]]]
    /\ pc' = [pc EXCEPT ![r] = "done"]
    /\ UNCHANGED <<handler, reqBody, upstream, fetchVars, csvData, file>>

\* fetchAllOrders threw: res.status(500).json({success: false, error})
ApiCatch(r) ==
    /\ handler[r] = "api" /\ pc[r] = "threw"
    /\ res' = [res EXCEPT ![r] = [status |-> 500,
                                  body |-> [success |-> FALSE, error |-> thrown[r]]]]
    /\ pc' = [pc EXCEPT ![r] = "done"]
    /\ UNCHANGED <<handler, reqBody, upstream, fetchVars, csvData, file>>

(***************************************************************************)
(* transformOrderToWooFormat (server.js:153-202)                           *)
(***************************************************************************)
\* the value of a row field that is undefined
Undefined == "<undefined>"

\* mutant of Str: the property is not read
Str_AlwaysEmpty(o, f) == ""

\* o.f || '' for a string property
Str(o, f) == IF Has(o, f) THEN o[f] ELSE ""

\* o?.f for an object property (an absent object has no properties)
Obj(o, f) == IF Has(o, f) THEN o[f] ELSE <<>>

\* mutant of Or: the second operand is taken
Or_IgnoresFirst(a, b) == b

\* a || b for strings ("" is falsy, as undefined and null are)
Or(a, b) == IF a # "" THEN a ELSE b

RECURSIVE StripWs(_)
\* s.replace(/\s/g, '')
StripWs(s) ==
    IF s = "" THEN ""
    ELSE IF Head(s) = " " THEN StripWs(Tail(s)) ELSE Head(s) \o StripWs(Tail(s))

RECURSIVE TrimStart(_)
TrimStart(s) == IF s # "" /\ Head(s) = " " THEN TrimStart(Tail(s)) ELSE s

RECURSIVE TrimEnd(_)
TrimEnd(s) ==
    IF s # "" /\ SubSeq(s, Len(s), Len(s)) = " " THEN TrimEnd(SubSeq(s, 1, Len(s) - 1)) ELSE s

\* s.trim()
Trim(s) == TrimEnd(TrimStart(s))

RECURSIVE RemoveHash(_)
\* s.replace('#', ''): the first # is removed
RemoveHash(s) ==
    IF s = "" THEN ""
    ELSE IF Head(s) = "#" THEN Tail(s) ELSE Head(s) \o RemoveHash(Tail(s))

\* moment(t).utcOffset('+02:00').format('YYYY-MM-DD HH:mm') for the timestamps
\* the data sets and the clock hold
FormatEgypt(t) ==
    CASE t = "2024-01-15T23:30:00Z"      -> "2024-01-16 01:30"
      [] t = "2024-01-15T10:00:59+02:00" -> "2024-01-15 10:00"
      [] t = "2024-01-16T08:00:00Z"      -> "2024-01-16 10:00"
      [] t = "2026-11-01T08:00:00Z"      -> "2026-11-01 10:00"
      [] t = "2026-11-01T08:01:00Z"      -> "2026-11-01 10:01"
      [] OTHER -> "Invalid date"

\* the values of new Date() while an export runs
Clock == {"2026-11-01T08:00:00Z", "2026-11-01T08:01:00Z"}

\* the largest number of the call of transformOrderToWooFormat before which
\* the minute of the clock changes
MaxTick == 2

\* the clock the n-th call of transformOrderToWooFormat of an export reads:
\* the minute changes before call number tick (tick 0: it does not change)
ClockAt(tick, n) ==
    IF tick # 0 /\ n >= tick THEN "2026-11-01T08:01:00Z" ELSE "2026-11-01T08:00:00Z"

\* (order.name || order.id).toString() and dc.code.replace(...) throw a
\* TypeError when the value is undefined
TransformThrows(order) ==
    \/ Str(order, "name") = "" /\ ~Has(order, "id")
    \/ \E i \in DOMAIN Obj(order, "discount_codes") : ~Has(order.discount_codes[i], "code")

RECURSIVE JoinCodes(_)
\* discount_codes.map(dc => dc.code.replace(/\s/g, '')).join(',')
JoinCodes(dcs) ==
    IF dcs = <<>> THEN ""
    ELSE IF Len(dcs) = 1 THEN StripWs(dcs[1].code)
    ELSE StripWs(dcs[1].code) \o "," \o JoinCodes(Tail(dcs))

\* the row of one line item of one order; now is the clock moment() reads
\* when order.created_at is undefined
transformOrderToWooFormat(order, lineItem, now) ==
    LET bill == Obj(order, "billing_address")
        ship == Obj(order, "shipping_address")
    IN [ Order_Number |->
            RemoveHash(IF Str(order, "name") # "" THEN order.name ELSE ToString(order.id)),
         Order_Status |-> Or(Str(order, "financial_status"), "pending"),
         Order_Date |->
            FormatEgypt(IF Has(order, "created_at") THEN order.created_at ELSE now),
         Customer_Note |-> Str(order, "note"),
         First_Name_Billing |-> Str(bill, "first_name"),
         Last_Name_Billing |-> Str(bill, "last_name"),
         Company_Billing |-> Str(bill, "company"),
         Address_Billing |-> Trim(Str(bill, "address1") \o " " \o Str(bill, "address2")),
         City_Billing |-> Str(bill, "city"),
         State_Code_Billing |-> Str(bill, "province_code"),
         Postcode_Billing |-> StripWs(Str(bill, "zip")),
         Country_Code_Billing |-> Str(bill, "country_code"),
         Email_Shipping |-> Or(Str(ship, "email"), Str(order, "email")),
         Paid_Date |->
            IF Str(order, "processed_at") # "" THEN FormatEgypt(order.processed_at) ELSE "",
         Phone_Shipping |-> StripWs(Or(Str(ship, "phone"), Str(order, "phone"))),
         Phone_Billing |-> StripWs(Or(Str(bill, "phone"), Str(order, "phone"))),
         First_Name_Shipping |-> Or(Str(ship, "first_name"), Str(bill, "first_name")),
         Last_Name_Shipping |-> Or(Str(ship, "last_name"), Str(bill, "last_name")),
         Address_Shipping |->
            Trim(Or(Str(ship, "address1"), Str(bill, "address1")) \o " "
                 \o Or(Str(ship, "address2"), Str(bill, "address2"))),
         City_Shipping |-> Or(Str(ship, "city"), Str(bill, "city")),
         State_Code_Shipping |-> Or(Str(ship, "province_code"), Str(bill, "province_code")),
         Postcode_Shipping |-> StripWs(Or(Str(ship, "zip"), Str(bill, "zip"))),
         Country_Code_Shipping |-> Or(Str(ship, "country_code"), Str(bill, "country_code")),
         Payment_Method_Title |->
            LET names == Obj(order, "payment_gateway_names")
            IN IF names # <<>> /\ names[1] # "" THEN names[1] ELSE "Unknown",
         Cart_Discount_Amount |-> Or(Str(order, "total_discounts"), "0"),
         Order_Subtotal_Amount |-> Or(Str(order, "subtotal_price"), "0"),
         Shipping_Method_Title |->
            LET lines == Obj(order, "shipping_lines")
            IN IF lines # <<>> /\ Str(lines[1], "title") # "" THEN lines[1].title
               ELSE "Standard",
         Order_Shipping_Amount |->
            Or(Str(Obj(Obj(order, "total_shipping_price_set"), "shop_money"), "amount"),
               Or(Str(order, "total_shipping_price"), "0")),
         Order_Refund_Amount |-> "0",
         Order_Total_Amount |-> Or(Str(order, "total_price"), "0"),
         Order_Total_Tax_Amount |-> Or(Str(order, "total_tax"), "0"),
         SKU |-> Str(lineItem, "sku"),
         Item_No |-> IF Has(lineItem, "id") THEN lineItem.id ELSE Undefined,
         Item_Name |->
            IF Str(lineItem, "name") # "" THEN lineItem.name
            ELSE IF Has(lineItem, "title") THEN lineItem.title ELSE Undefined,
         Quantity |-> IF Has(lineItem, "quantity") /\ lineItem.quantity # 0
                      THEN lineItem.quantity ELSE 1,
         Item_Cost |-> Or(Str(lineItem, "price"), "0"),
         Coupon_Code |-> JoinCodes(Obj(order, "discount_codes")),
         Discount_Amount |-> Or(Str(lineItem, "total_discount"), "0"),
         Discount_Amount_Tax |-> "0",
         City_Code |-> StripWs(Str(bill, "city")),
         Carrier_Code |-> "" ]

(***************************************************************************)
(* POST /export-orders and POST /export-orders-excel (server.js:239-514)   *)
(***************************************************************************)
\* new Date(d) is a valid date
ValidDate(d) == d \in {"2024-01-01", "2024-01-31"}

\* new Date(d).toISOString()
StartISO(d) == d \o "T00:00:00.000Z"

\* endDateObj.setHours(23, 59, 59, 999); toISOString(), the server's zone
\* being UTC
EndISO(d) == d \o "T23:59:59.999Z"

\* a Date method threw: RangeError: Invalid time value
DateThrows(b) ==
    \/ Str(b, "startDate") # "" /\ ~ValidDate(b.startDate)
    \/ Str(b, "endDate") # "" /\ ~ValidDate(b.endDate)

\* let queryParams = 'limit=250&status=any', then the date bounds and the
\* status of req.body
ExportQueryParams(b) ==
    <<Param("limit", "250"), Param("status", "any")>>
    \o (IF Str(b, "startDate") # ""
          THEN <<Param("created_at_min", StartISO(b.startDate))>> ELSE <<>>)
    \o (IF Str(b, "endDate") # ""
          THEN <<Param("created_at_max", EndISO(b.endDate))>> ELSE <<>>)
    \o (IF Str(b, "status") # "" /\ b.status # "any"
          THEN <<Param("status", b.status)>> ELSE <<>>)

\* both export handlers up to await fetchAllOrders(queryParams); a Date
\* method that throws is caught and answered with 500
ExportOrders(r) ==
    /\ handler[r] \in {"csv", "excel"} /\ pc[r] = "start"
    /\ IF DateThrows(reqBody[r])
       THEN /\ res' = [res EXCEPT ![r] = [status |-> 500,
                                         body |-> [error |-> "Invalid time value"]]]
            /\ pc' = [pc EXCEPT ![r] = "done"]
            /\ UNCHANGED fetchVars
       ELSE /\ CallFetch(r, ExportQueryParams(reqBody[r]))
            /\ res' = res
    /\ UNCHANGED <<handler, reqBody, upstream, csvData, file>>

\* fetchAllOrders threw: res.status(500).json({error: error.message})
ExportCatch(r) ==
    /\ handler[r] \in {"csv", "excel"} /\ pc[r] = "threw"
    /\ res' = [res EXCEPT ![r] = [status |-> 500, body |-> [error |-> thrown[r]]]]
    /\ pc' = [pc EXCEPT ![r] = "done"]
    /\ UNCHANGED <<handler, reqBody, upstream, fetchVars, csvData, file>>

\* !orders || orders.length === 0
NoOrders(orders) == Len(orders) = 0

\* !order.line_items || order.line_items.length === 0
NoLineItems(order) == Obj(order, "line_items") = <<>>

\* mutant of OrderPairs: only the first line item of an order yields a row
OrderPairs_FirstItemOnly(order) ==
    IF Obj(order, "line_items") = <<>> THEN <<>>
    ELSE <<[order |-> order, lineItem |-> order.line_items[1]]>>

\* the calls of transformOrderToWooFormat the inner for loop makes for one
\* order: none when the order is skipped
OrderPairs(order) ==
    IF NoLineItems(order) THEN <<>>
    ELSE [k \in DOMAIN order.line_items |->
             [order |-> order, lineItem |-> order.line_items[k]]]

RECURSIVE PairsBetween(_, _, _)
\* the calls made for orders[lo..hi], in order (split in halves to bound the
\* depth of the evaluation)
PairsBetween(orders, lo, hi) ==
    IF lo > hi THEN <<>>
    ELSE IF lo = hi THEN OrderPairs(orders[lo])
    ELSE LET mid == (lo + hi) \div 2
         IN PairsBetween(orders, lo, mid) \o PairsBetween(orders, mid + 1, hi)

\* the calls of transformOrderToWooFormat of an export, in order
Pairs(orders) == PairsBetween(orders, 1, Len(orders))

\* the rows of the two nested for loops over orders and their line items:
\* the n-th call reads the clock on its own
Rows(orders, tick) ==
    LET pairs == Pairs(orders)
    IN [n \in DOMAIN pairs |->
           transformOrderToWooFormat(pairs[n].order, pairs[n].lineItem, ClockAt(tick, n))]

\* transformOrderToWooFormat throws for an order that has line items
RowsThrow(orders) ==
    \E i \in DOMAIN orders : ~NoLineItems(orders[i]) /\ TransformThrows(orders[i])

\* mutant of Header: the last column is missing
Header_WithoutCarrierCode ==
    << "Order_Number", "Order_Status", "Order_Date", "Customer_Note",
       "First_Name_Billing", "Last_Name_Billing", "Company_Billing", "Address_Billing",
       "City_Billing", "State_Code_Billing", "Postcode_Billing", "Country_Code_Billing",
       "Email_Shipping", "Paid_Date", "Phone_Shipping", "Phone_Billing",
       "First_Name_Shipping", "Last_Name_Shipping", "Address_Shipping", "City_Shipping",
       "State_Code_Shipping", "Postcode_Shipping", "Country_Code_Shipping",
       "Payment_Method_Title", "Cart_Discount_Amount", "Order_Subtotal_Amount",
       "Shipping_Method_Title", "Order_Shipping_Amount", "Order_Refund_Amount",
       "Order_Total_Amount", "Order_Total_Tax_Amount", "SKU", "Item_No", "Item_Name",
       "Quantity", "Item_Cost", "Coupon_Code", "Discount_Amount", "Discount_Amount_Tax",
       "City_Code" >>

\* the ids of the header of createObjectCsvWriter, the columns of the sheet
Header ==
    << "Order_Number", "Order_Status", "Order_Date", "Customer_Note",
       "First_Name_Billing", "Last_Name_Billing", "Company_Billing", "Address_Billing",
       "City_Billing", "State_Code_Billing", "Postcode_Billing", "Country_Code_Billing",
       "Email_Shipping", "Paid_Date", "Phone_Shipping", "Phone_Billing",
       "First_Name_Shipping", "Last_Name_Shipping", "Address_Shipping", "City_Shipping",
       "State_Code_Shipping", "Postcode_Shipping", "Country_Code_Shipping",
       "Payment_Method_Title", "Cart_Discount_Amount", "Order_Subtotal_Amount",
       "Shipping_Method_Title", "Order_Shipping_Amount", "Order_Refund_Amount",
       "Order_Total_Amount", "Order_Total_Tax_Amount", "SKU", "Item_No", "Item_Name",
       "Quantity", "Item_Cost", "Coupon_Code", "Discount_Amount", "Discount_Amount_Tax",
       "City_Code", "Carrier_Code" >>

\* one record as the writer renders it: the fields in header order, a number
\* in decimal and undefined as the empty field
RecordLine(row) ==
    [i \in DOMAIN Header |->
        IF Header[i] = "Quantity" THEN ToString(row.Quantity)
        ELSE IF row[Header[i]] = Undefined THEN "" ELSE row[Header[i]]]

\* the text writeRecords writes: the header line, then one line per record
CsvContent(rows) == <<Header>> \o [i \in DOMAIN rows |-> RecordLine(rows[i])]

\* the file after content is written from offset 0 into a file that holds old
\* (both in lines): what old holds beyond the end of content stays
WriteAt0(old, content) ==
    content \o SubSeq(old, Len(content) + 1, Len(old))

\* const BOM = '﻿'
BOM == "BOM"

\* POST /export-orders after fetchAllOrders returned: 404 for no orders, else
\* the rows are built and writeRecords is called (server.js:262-334)
ExportRows(r) ==
    /\ handler[r] = "csv" /\ pc[r] = "returned"
    /\ IF NoOrders(allOrders[r])
       THEN /\ res' = [res EXCEPT ![r] = [status |-> 404,
                                         body |-> [error |-> "No orders found"]]]
            /\ pc' = [pc EXCEPT ![r] = "done"]
            /\ csvData' = csvData
       ELSE IF RowsThrow(allOrders[r])
       THEN /\ res' = [res EXCEPT ![r] = [status |-> 500,
                                         body |-> [error |-> "TypeError"]]]
            /\ pc' = [pc EXCEPT ![r] = "done"]
            /\ csvData' = csvData
       ELSE /\ \E tick \in 0..MaxTick :
                 csvData' = [csvData EXCEPT ![r] = Rows(allOrders[r], tick)]
            /\ pc' = [pc EXCEPT ![r] = "open"]
            /\ res' = res
    /\ UNCHANGED <<handler, reqBody, upstream, fetchVars, file>>

\* writeRecords, first half: fs.writeFile opens orders_export.csv with flag
\* 'w', which truncates it
FileOpen(r) ==
    /\ handler[r] = "csv" /\ pc[r] = "open"
    /\ file' = <<>>
    /\ pc' = [pc EXCEPT ![r] = "write"]
    /\ UNCHANGED <<handler, reqBody, upstream, fetchVars, csvData, res>>

\* writeRecords, second half: the content is written from the start of the
\* file and the promise resolves
FileWrite(r) ==
    /\ handler[r] = "csv" /\ pc[r] = "write"
    /\ file' = WriteAt0(file, CsvContent(csvData[r]))
    /\ pc' = [pc EXCEPT ![r] = "written"]
    /\ UNCHANGED <<handler, reqBody, upstream, fetchVars, csvData, res>>

\* the body of the CSV response: BOM + fs.readFileSync('orders_export.csv')
CsvBody(content) == <<BOM>> \o content

\* after await writeRecords: the file is read back and sent (server.js:336-345)
ExportSend(r) ==
    /\ handler[r] = "csv" /\ pc[r] = "written"
    /\ res' = [res EXCEPT ![r] = [status |-> 200, body |-> CsvBody(file)]]
    /\ pc' = [pc EXCEPT ![r] = "done"]
    /\ UNCHANGED <<handler, reqBody, upstream, fetchVars, csvData, file>>

\* the headers of worksheet.columns, in order (server.js:391-433); the key of
\* each column is the one addRow fills from the row field of that name
\* (server.js:454-496)
ExcelColumns ==
    << "Order_Number", "Order_Status", "Order_Date", "Customer_Note",
       "First_Name_Billing", "Last_Name_Billing", "Company_Billing", "Address_Billing",
       "City_Billing", "State_Code_Billing", "Postcode_Billing", "Country_Code_Billing",
       "Email_Shipping", "Paid_Date", "Phone_Shipping", "Phone_Billing",
       "First_Name_Shipping", "Last_Name_Shipping", "Address_Shipping", "City_Shipping",
       "State_Code_Shipping", "Postcode_Shipping", "Country_Code_Shipping",
       "Payment_Method_Title", "Cart_Discount_Amount", "Order_Subtotal_Amount",
       "Shipping_Method_Title", "Order_Shipping_Amount", "Order_Refund_Amount",
       "Order_Total_Amount", "Order_Total_Tax_Amount", "SKU", "Item_No", "Item_Name",
       "Quantity", "Item_Cost", "Coupon_Code", "Discount_Amount", "Discount_Amount_Tax",
       "City_Code", "Carrier_Code" >>

\* one row of the worksheet: the cells in column order, an undefined value
\* leaving its cell empty
ExcelLine(row) ==
    [i \in DOMAIN ExcelColumns |->
        IF ExcelColumns[i] = "Quantity" THEN ToString(row.Quantity)
        ELSE IF row[ExcelColumns[i]] = Undefined THEN "" ELSE row[ExcelColumns[i]]]

\* the worksheet: the header row, then one row per addRow
ExcelContent(rows) == <<ExcelColumns>> \o [i \in DOMAIN rows |-> ExcelLine(rows[i])]

\* POST /export-orders-excel after fetchAllOrders returned: 404 for no orders,
\* else the rows are added to the worksheet of a new workbook and
\* writeBuffer is called (server.js:377-504)
ExcelRows(r) ==
    /\ handler[r] = "excel" /\ pc[r] = "returned"
    /\ IF NoOrders(allOrders[r])
       THEN /\ res' = [res EXCEPT ![r] = [status |-> 404,
                                         body |-> [error |-> "No orders found"]]]
            /\ pc' = [pc EXCEPT ![r] = "done"]
            /\ csvData' = csvData
       ELSE IF RowsThrow(allOrders[r])
       THEN /\ res' = [res EXCEPT ![r] = [status |-> 500,
                                         body |-> [error |-> "TypeError"]]]
            /\ pc' = [pc EXCEPT ![r] = "done"]
            /\ csvData' = csvData
       ELSE /\ \E tick \in 0..MaxTick :
                 csvData' = [csvData EXCEPT ![r] = Rows(allOrders[r], tick)]
            /\ pc' = [pc EXCEPT ![r] = "buffer"]
            /\ res' = res
    /\ UNCHANGED <<handler, reqBody, upstream, fetchVars, file>>

\* after await workbook.xlsx.writeBuffer(): res.send(buffer)
ExcelSend(r) ==
    /\ handler[r] = "excel" /\ pc[r] = "buffer"
    /\ res' = [res EXCEPT ![r] = [status |-> 200, body |-> ExcelContent(csvData[r])]]
    /\ pc' = [pc EXCEPT ![r] = "done"]
    /\ UNCHANGED <<handler, reqBody, upstream, fetchVars, csvData, file>>

(***************************************************************************)
(* Specifications                                                          *)
(***************************************************************************)
\* the state of a request before its handler runs
Fresh(h, b, u) ==
    /\ handler = h /\ reqBody = b /\ upstream = u
    /\ pc = [r \in Requests |-> IF h[r] = "none" THEN "done" ELSE "start"]
    /\ queryParams = [r \in Requests |-> <<>>]
    /\ allOrders = [r \in Requests |-> <<>>]
    /\ pageInfo = [r \in Requests |-> ""]
    /\ hasNextPage = [r \in Requests |-> TRUE]
    /\ pageCount = [r \in Requests |-> 0]
    /\ requests = [r \in Requests |-> <<>>]
    /\ responses = [r \in Requests |-> <<>>]
    /\ delays = [r \in Requests |-> 0]
    /\ warned = [r \in Requests |-> FALSE]
    /\ thrown = [r \in Requests |-> ""]
    /\ outcome = [r \in Requests |-> "pending"]
    /\ csvData = [r \in Requests |-> <<>>]
    /\ file = <<>>
    /\ res = [r \in Requests |-> [status |-> 0]]

\* req.query of GET /api/orders
ApiQueries ==
    { [status |-> "open"],
      [created_at_min |-> "2024-01-01", created_at_max |-> "2024-01-31", status |-> "closed"] }

\* the short explicit pages of the upstream under Spec
ApiLists == { <<>>, <<[name |-> "#A", line_items |-> <<>>]>> }

\* the largest number of full pages of the second, small data set of Spec
SmallFull == 2

\* the data set of a GET /api/orders request
ApiData(full) ==
    [first |-> 0, full |-> full, ends |-> TRUE, lists |-> ApiLists, fails |-> "any"]

\* one GET /api/orders request: a query with date bounds against a data set
\* of up to MaxFull full pages, or one without against up to SmallFull
Init ==
    \E q \in ApiQueries :
        Fresh([r \in Requests |-> IF r = 1 THEN "api" ELSE "none"],
              [r \in Requests |-> IF r = 1 THEN q ELSE [status |-> "any"]],
              [r \in Requests |->
                  ApiData(IF Has(q, "created_at_min") THEN MaxFull ELSE SmallFull)])

\* one GET /api/orders request against a data set of up to SmallFull full pages
InitSmall ==
    \E q \in ApiQueries :
        Fresh([r \in Requests |-> IF r = 1 THEN "api" ELSE "none"],
              [r \in Requests |-> IF r = 1 THEN q ELSE [status |-> "any"]],
              [r \in Requests |-> ApiData(SmallFull)])

Next ==
    \E r \in Requests :
        \/ ApiOrders(r)
        \/ Response(r)
        \/ DelayElapsed(r)
        \/ RequestFails(r)
        \/ ApiRespond(r)
        \/ ApiCatch(r)

Spec == Init /\ [][Next]_vars

SpecSmall == InitSmall /\ [][Next]_vars

\* req.body of the two concurrent exports: different queries
ExportBodies(r) ==
    IF r = 1 THEN { [startDate |-> "2024-01-01", endDate |-> "2024-01-31", status |-> "open"],
                    [startDate |-> "not a date"] }
             ELSE { [status |-> "any"] }

\* the short explicit pages of the data sets of the exports: no order, orders
\* without line items only, and orders with line items
ExportLists(r) ==
    LET tag == IF r = 1 THEN "A" ELSE "B"
        item1 == [id |-> "7001", sku |-> tag \o "-S1", name |-> "Nuts", quantity |-> 3,
                  price |-> "10.50"]
        item2 == [id |-> "7002", title |-> "Seeds"]
    IN { <<>>,
         <<[name |-> "#" \o tag \o "1", line_items |-> <<>>], [name |-> "#" \o tag \o "2"]>>,
         <<[name |-> "#" \o tag \o "3", created_at |-> "2024-01-16T08:00:00Z",
            line_items |-> <<item1>>]>>,
         <<[name |-> "#" \o tag \o "4", line_items |-> <<item1, item2>>],
           [name |-> "#" \o tag \o "5", created_at |-> "2024-01-15T10:00:59+02:00",
            processed_at |-> "2024-01-16T08:00:00Z", line_items |-> <<item2>>]>> }

\* the identifiers the data set of request r starts after
FirstId(r) == (r - 1) * (ExportMaxFull + 1) * PAGE_LIMIT

\* two concurrent exports with different queries, the first a CSV export
InitExport ==
    \E h \in {"csv", "excel"} : \E b \in ExportBodies(1) :
        Fresh([r \in Requests |-> IF r = 1 THEN "csv" ELSE h],
              [r \in Requests |-> IF r = 1 THEN b ELSE CHOOSE x \in ExportBodies(2) : TRUE],
              [r \in Requests |->
                  [first |-> FirstId(r), full |-> ExportMaxFull, ends |-> FALSE,
                   lists |-> ExportLists(r), fails |-> "429"]])

NextExport ==
    \E r \in Requests :
        \/ ExportOrders(r)
        \/ Response(r)
        \/ DelayElapsed(r)
        \/ RequestFails(r)
        \/ ExportCatch(r)
        \/ ExportRows(r)
        \/ FileOpen(r)
        \/ FileWrite(r)
        \/ ExportSend(r)
        \/ ExcelRows(r)
        \/ ExcelSend(r)

SpecExport == InitExport /\ [][NextExport]_vars

\* a populated address
Address(tag) ==
    [first_name |-> tag \o "-First", last_name |-> tag \o "-Last",
     company |-> tag \o "-Co", address1 |-> tag \o " 1 Nile St", address2 |-> "Apt 2 ",
     city |-> tag \o " New Cairo", province_code |-> tag \o "-C", zip |-> tag \o " 11 835",
     country_code |-> "EG", phone |-> tag \o " 010 111"]

\* the line items given to transformOrderToWooFormat: fully populated,
\* without name and quantity, without id, name and title and with quantity 0,
\* and with a negative quantity
TransformItems ==
    { [id |-> "7001", sku |-> "S1", name |-> "Nuts", title |-> "Nuts 1kg", quantity |-> 3,
       price |-> "10.50", total_discount |-> "1.05"],
      [id |-> "7002", title |-> "Seeds"],
      [sku |-> "S3", quantity |-> 0],
      [id |-> "7004", name |-> "Dates", quantity |-> 0 - 1] }

\* the orders given to transformOrderToWooFormat, without their line items:
\* fully populated, without a shipping address (with and without a phone of
\* the order), with a shipping address that holds a first name only, without a
\* name, without name and id, and with a discount code entry without a code;
\* with an empty first gateway name, no gateway name, a shipping line without
\* a title, and a shipping price with and without its shop money amount
TransformOrders ==
    { [id |-> 1001, name |-> "#1001", created_at |-> "2024-01-15T23:30:00Z",
       processed_at |-> "2024-01-16T08:00:00Z", financial_status |-> "paid",
       note |-> "ring twice", email |-> "a@nut.eg", phone |-> "012 222",
       billing_address |-> Address("B"), shipping_address |-> Address("S"),
       payment_gateway_names |-> <<"cod">>, shipping_lines |-> <<[title |-> "Courier"]>>,
       total_discounts |-> "5.00", subtotal_price |-> "95.00", total_price |-> "100.00",
       total_tax |-> "0.00", total_shipping_price |-> "5.00",
       discount_codes |-> <<[code |-> "SAVE 10"], [code |-> "X"]>>],
      [id |-> 1002, name |-> "#1002", created_at |-> "2024-01-16T08:00:00Z",
       billing_address |-> Address("B"), payment_gateway_names |-> <<"">>,
       shipping_lines |-> <<[title |-> "Pickup"], [title |-> "Courier"]>>],
      [id |-> 1003, name |-> "#1003", phone |-> "012 222", email |-> "a@nut.eg",
       billing_address |-> Address("B"), total_shipping_price |-> "5.00",
       total_shipping_price_set |-> [shop_money |-> [amount |-> "4.50"]]],
      [id |-> 1004, name |-> "#1004", billing_address |-> Address("B"),
       shipping_address |-> [first_name |-> "S-First"], payment_gateway_names |-> <<>>,
       shipping_lines |-> <<[price |-> "5.00"]>>, total_shipping_price_set |-> [x |-> "1"]],
      [id |-> 1005, total_price |-> "7.00"],
      [email |-> "a@nut.eg"],
      [id |-> 1007, name |-> "#1007", discount_codes |-> <<[amount |-> "5.00"]>>] }

\* the pages of the data set of SpecTransform: one order with one line item
TransformLists ==
    { <<[f \in DOMAIN o \cup {"line_items"} |->
            IF f = "line_items" THEN <<i>> ELSE o[f]]>> :
        o \in TransformOrders, i \in TransformItems }

\* one export of one order of TransformLists
InitTransform ==
    \E h \in {"csv", "excel"} :
        Fresh([r \in Requests |-> IF r = 1 THEN h ELSE "none"],
              [r \in Requests |-> [status |-> "any"]],
              [r \in Requests |->
                  [first |-> 0, full |-> 0, ends |-> FALSE, lists |-> {},
                   raws |-> TransformLists, fails |-> "429"]])

NextTransform ==
    \E r \in Requests :
        \/ ExportOrders(r)
        \/ Response(r)
        \/ RequestFails(r)
        \/ ExportCatch(r)
        \/ ExportRows(r)
        \/ FileOpen(r)
        \/ FileWrite(r)
        \/ ExportSend(r)
        \/ ExcelRows(r)
        \/ ExcelSend(r)

SpecTransform == InitTransform /\ [][NextTransform]_vars

\* every request is answered or times out, every timer fires and every
\* continuation of a settled promise runs
FairSpec == Spec /\ WF_vars(Next)

(***************************************************************************)
(* Properties of fetchAllOrders                                            *)
(***************************************************************************)
\* the last element of a non-empty sequence
Last(s) == s[Len(s)]

\* the request ended in failure: axios rejected, or the response had no body
Failed(resp) == ~resp.ok \/ resp.page.t = "nobody"

\* a response that delivered a page (a list of orders, possibly empty)
IsPage(resp) == resp.ok /\ resp.page.t # "nobody"

RECURSIVE Offset(_, _)
\* the number of orders of the first i pages of resps
Offset(resps, i) == IF i = 0 THEN 0 ELSE Offset(resps, i - 1) + PageLen(resps[i].page)

\* allOrders of r is the concatenation, in request order, of the pages received
IsConcatOfReceived(r) ==
    /\ Len(allOrders[r]) = Offset(responses[r], Len(responses[r]))
    /\ \A i \in DOMAIN responses[r] :
         SubSeq(allOrders[r], Offset(responses[r], i - 1) + 1, Offset(responses[r], i))
           = PageOrders(responses[r][i].page)

\* the order identifiers of a page
PageIds(page) ==
    IF page.t \in {"range", "list"} THEN (page.base + 1)..(page.base + PageLen(page)) ELSE {}

\* the pages received by r hold pairwise distinct order identifiers
DistinctIdsReceived(r) ==
    \A i, j \in DOMAIN responses[r] :
        i < j => PageIds(responses[r][i].page) \cap PageIds(responses[r][j].page) = {}

\* C1: one fetchAllOrders invocation issues at most 100 page requests and then
\* ends (it returns or throws), whatever the upstream answers, provided every
\* request is eventually answered or times out
C1_TerminatesWithinCeiling ==
    /\ [](\A r \in Requests : Len(requests[r]) <= MAX_PAGES)
    /\ \A r \in Requests : <>(handler[r] = "none" \/ outcome[r] # "pending")

\* C1 witness: the upstream answered 100 requests with a full page and a next
\* link, and the fetch returned
C1_Witness ==
    \E r \in Requests :
        /\ outcome[r] = "returned" /\ Len(requests[r]) = MAX_PAGES
        /\ \A i \in DOMAIN responses[r] :
             /\ PageLen(responses[r][i].page) = PAGE_LIMIT
             /\ NextCursorSent(responses[r][i].link) # ""

\* C2 as stated: a return never omits an available page, so the last response
\* of a returned fetch names no next page
C2_Original ==
    \A r \in Requests :
        outcome[r] = "returned" => NextCursorSent(Last(responses[r]).link) = ""

\* C2 amended: a fetch ends by throwing or by returning, in order, the orders of
\* the pages reachable from page 1 up to and including the first page that is
\* short, names no next cursor, or is the 100th; only in the first and the
\* last of these cases can a further available page be omitted
C2_Amended ==
    \A r \in Requests :
        /\ outcome[r] = "threw" => thrown[r] # ""
        /\ outcome[r] = "returned" =>
             /\ thrown[r] = "" /\ responses[r] # <<>>
             /\ \A i \in DOMAIN responses[r] :
                  /\ IsPage(responses[r][i])
                  /\ \A j \in {1, PageLen(responses[r][i].page)}
                                \cap 1..PageLen(responses[r][i].page) :
                       allOrders[r][Offset(responses[r], i - 1) + j]
                         = PageOrders(responses[r][i].page)[j]
             /\ Len(allOrders[r]) = Offset(responses[r], Len(responses[r]))
             /\ \A i \in 1..(Len(responses[r]) - 1) :
                  /\ PageLen(responses[r][i].page) = PAGE_LIMIT
                  /\ NextCursorSent(responses[r][i].link) # ""
             /\ NextCursorSent(Last(responses[r]).link) # "" =>
                  \/ PageLen(Last(responses[r]).page) < PAGE_LIMIT
                  \/ Len(responses[r]) = MAX_PAGES

\* C2 witness: a fetch of several pages returned although its last response
\* names a next page
C2_Witness ==
    \E r \in Requests :
        /\ outcome[r] = "returned" /\ Len(responses[r]) >= 2
        /\ NextCursorSent(Last(responses[r]).link) # ""

\* C3: the first request carries the caller's query parameters; every later
\* request carries the page size and the cursor of the next relation of the
\* response before it, and nothing else
C3_CursorOnly ==
    \A r \in Requests :
        \A i \in DOMAIN requests[r] :
            IF i = 1 THEN requests[r][i] = queryParams[r]
            ELSE /\ NextCursorSent(responses[r][i - 1].link) # ""
                 /\ requests[r][i] =
                      <<Param("limit", "250"),
                        Param("page_info", NextCursorSent(responses[r][i - 1].link))>>
                 /\ \A k \in DOMAIN requests[r][i] :
                      requests[r][i][k].k \notin {"status", "created_at_min", "created_at_max"}

\* C3 witness: a third request was issued for a query with date bounds
C3_Witness ==
    \E r \in Requests :
        /\ Len(requests[r]) >= 3
        /\ \E k \in DOMAIN queryParams[r] : queryParams[r][k].k = "created_at_min"

\* C4: after a failed page request no further request is issued, the fetch
\* throws, and the response to the caller holds no orders
C4_FailureAborts ==
    \A r \in Requests :
        \A i \in DOMAIN responses[r] :
            Failed(responses[r][i]) =>
                /\ i = Len(responses[r]) /\ Len(requests[r]) = i
                /\ outcome[r] = "threw" /\ thrown[r] # ""
                /\ pc[r] \in {"threw", "done"}
                /\ res[r].status # 0 =>
                     res[r].status = 500 /\ ~Has(res[r].body, "orders")

\* C4 witness: a request after page 1 failed with orders accumulated, and the
\* caller was answered
C4_Witness ==
    \E r \in Requests :
        /\ Len(responses[r]) >= 2 /\ ~Last(responses[r]).ok
        /\ allOrders[r] # <<>> /\ res[r].status = 500

\* the text of an error body
BodyText(data) ==
    IF data.t = "text" THEN data.v
    ELSE IF Has(data, "errors") THEN data.errors.v
    ELSE data.error

\* C5 as stated: a timeout, a 429 and a 401 yield their own signal and every
\* other HTTP error yields an error carrying the upstream error body
C5_Original ==
    \A r \in Requests :
        (outcome[r] = "threw" /\ ~Last(responses[r]).ok) =>
            LET e == Last(responses[r])
            IN IF e.code = "ECONNABORTED" THEN thrown[r] = TimeoutMessage
               ELSE IF ~Has(e, "status") THEN TRUE
               ELSE IF e.status = 429 THEN thrown[r] = RateLimitMessage
               ELSE IF e.status = 401 THEN thrown[r] = AuthMessage
               ELSE thrown[r] = BodyText(e.data)

\* C6: a returned result is the concatenation of the received pages in request
\* order, and holds no identifier twice when the pages hold distinct identifiers
C6_Concatenation ==
    \A r \in Requests :
        outcome[r] = "returned" =>
            /\ IsConcatOfReceived(r)
            /\ DistinctIdsReceived(r) =>
                 NoDuplicates([k \in DOMAIN allOrders[r] |-> allOrders[r][k].id])

\* C6 witness: a fetch returned three pages of distinct identifiers
C6_Witness ==
    \E r \in Requests :
        /\ outcome[r] = "returned" /\ Len(responses[r]) = 3
        /\ DistinctIdsReceived(r) /\ Len(allOrders[r]) > 2 * PAGE_LIMIT

\* C9: a page of fewer than 250 orders is the last request of the fetch, which
\* returns, whatever its link header says
C9_ShortPageEnds ==
    \A r \in Requests :
        \A i \in DOMAIN responses[r] :
            (IsPage(responses[r][i]) /\ PageLen(responses[r][i].page) < PAGE_LIMIT) =>
                Len(requests[r]) = i /\ outcome[r] = "returned"

\* C9 witness: a short page with a next cursor ended a fetch
C9_Witness ==
    \E r \in Requests :
        /\ responses[r] # <<>> /\ IsPage(Last(responses[r]))
        /\ PageLen(Last(responses[r]).page) = PAGE_LIMIT - 1
        /\ NextCursorSent(Last(responses[r]).link) # ""
        /\ outcome[r] = "returned"

\* C10: a page whose link header holds no next relation is the last request of
\* the fetch, which returns the orders accumulated so far
C10_NoNextRelationEnds ==
    \A r \in Requests :
        \A i \in DOMAIN responses[r] :
            (IsPage(responses[r][i])
             /\ ~\E k \in DOMAIN responses[r][i].link : responses[r][i].link[k].rel = "next") =>
                /\ Len(requests[r]) = i /\ outcome[r] = "returned"
                /\ Len(allOrders[r]) = Offset(responses[r], i)

\* C10 witness: a full page with a previous relation alone ended a fetch of
\* several pages
C10_Witness ==
    \E r \in Requests :
        /\ Len(responses[r]) >= 2 /\ IsPage(Last(responses[r]))
        /\ PageLen(Last(responses[r]).page) = PAGE_LIMIT
        /\ Last(responses[r]).link = PreviousOnly(Len(responses[r]))
        /\ outcome[r] = "returned"

\* C11: after 100 pages, the last of which still names a next page, the fetch
\* has logged the page limit warning and returned the orders of the 100 pages;
\* it has not thrown, and the caller answers with success and all these orders
C11_CeilingIsSoft ==
    \A r \in Requests :
        (/\ Len(responses[r]) = MAX_PAGES /\ IsPage(Last(responses[r]))
         /\ PageLen(Last(responses[r]).page) = PAGE_LIMIT
         /\ NextCursorSent(Last(responses[r]).link) # "") =>
            /\ outcome[r] = "returned" /\ thrown[r] = "" /\ warned[r]
            /\ Len(requests[r]) = MAX_PAGES
            /\ Len(allOrders[r]) = MAX_PAGES * PAGE_LIMIT
            /\ Last(allOrders[r]) = Last(PageOrders(Last(responses[r]).page))
            /\ res[r].status # 0 =>
                 /\ res[r].status = 200
                 /\ res[r].body.count = MAX_PAGES * PAGE_LIMIT

\* C11 witness: the caller was answered after a fetch that stopped at the
\* ceiling with a next page still named
C11_Witness ==
    \E r \in Requests :
        /\ Len(responses[r]) = MAX_PAGES /\ warned[r] /\ res[r].status = 200
        /\ NextCursorSent(Last(responses[r]).link) # ""
        /\ PageLen(Last(responses[r]).page) = PAGE_LIMIT

\* C12: one delay is started after every page response but the final one, and
\* a request after the first is issued only by the step that ends a delay; no
\* delay follows the final response, the 100th included
C12_DelayBetweenPages ==
    /\ [](\A r \in Requests :
            /\ pc[r] = "delay" =>
                 delays[r] = Len(requests[r]) /\ Len(responses[r]) = Len(requests[r])
            /\ pc[r] \in {"await", "returned", "threw", "done"} /\ requests[r] # <<>> =>
                 delays[r] = Len(requests[r]) - 1
            /\ delays[r] < MAX_PAGES)
    /\ [][\A r \in Requests :
            (requests'[r] # requests[r] /\ requests[r] # <<>>) => pc[r] = "delay"]_vars

\* C12 witness: a fetch returned from the 100th page after 99 delays
C12_Witness ==
    \E r \in Requests :
        /\ outcome[r] = "returned" /\ Len(responses[r]) = MAX_PAGES
        /\ delays[r] = MAX_PAGES - 1

\* C13: at most one page request is in flight: a request is issued only when
\* every earlier one has been answered, with the cursor of the latest response
C13_OneRequestInFlight ==
    \A r \in Requests :
        /\ Len(requests[r]) - Len(responses[r]) = (IF pc[r] = "await" THEN 1 ELSE 0)
        /\ (pc[r] = "await" /\ Len(requests[r]) > 1) =>
              /\ pageInfo[r] = NextLinkMatch(Last(responses[r]).link)
              /\ Last(requests[r])[2] = Param("page_info", pageInfo[r])

\* C13 witness: the third request is in flight, two responses were received
C13_Witness ==
    \E r \in Requests :
        pc[r] = "await" /\ Len(requests[r]) = 3 /\ Len(responses[r]) = 2

(***************************************************************************)
(* Properties of the export handlers                                       *)
(***************************************************************************)
\* C7: the body of a CSV response is made of the rows of the request's own
\* orders: the header line and one line per row of its csvData, after the BOM
C7_OwnRowsOnly ==
    \A r \in Requests :
        (handler[r] = "csv" /\ res[r].status = 200) =>
            res[r].body = CsvBody(CsvContent(csvData[r]))

\* C8: an export whose fetch returned no order, or only orders without line
\* items, is answered with 404, not with a success response without data rows
C8_EmptyResultSet ==
    \A r \in Requests :
        (/\ handler[r] \in {"csv", "excel"} /\ outcome[r] = "returned"
         /\ \A i \in DOMAIN allOrders[r] : NoLineItems(allOrders[r][i])
         /\ res[r].status # 0) =>
            res[r].status = 404

\* the parameters of a query string that are named k
ParamsNamed(qp, k) == SelectSeq(qp, LAMBDA p : p.k = k)

\* the status of the query of req.body: "any" when it is omitted
QueryStatus(b) == IF Str(b, "status") # "" THEN b.status ELSE "any"

\* C14: the page-1 request of an export carries limit=250, the date bounds
\* that are present and exactly one status parameter, the status of the query
C14_OneStatusFilter ==
    \A r \in Requests :
        (handler[r] \in {"csv", "excel"} /\ requests[r] # <<>>) =>
            LET q == requests[r][1]
            IN /\ ParamsNamed(q, "limit") = <<Param("limit", "250")>>
               /\ Len(ParamsNamed(q, "created_at_min")) =
                    (IF Str(reqBody[r], "startDate") # "" THEN 1 ELSE 0)
               /\ Len(ParamsNamed(q, "created_at_max")) =
                    (IF Str(reqBody[r], "endDate") # "" THEN 1 ELSE 0)
               /\ ParamsNamed(q, "status") = <<Param("status", QueryStatus(reqBody[r]))>>

\* order.line_items.length (0 when line_items is absent)
ItemCount(order) == Len(Obj(order, "line_items"))

RECURSIVE ItemsBetween(_, _, _)
\* the number of line items of orders[lo..hi]
ItemsBetween(orders, lo, hi) ==
    IF lo > hi THEN 0
    ELSE IF lo = hi THEN ItemCount(orders[lo])
    ELSE LET mid == (lo + hi) \div 2
         IN ItemsBetween(orders, lo, mid) + ItemsBetween(orders, mid + 1, hi)

\* the handler of r has built its rows
RowsBuilt(r) ==
    /\ handler[r] \in {"csv", "excel"}
    /\ pc[r] \in {"open", "write", "written", "buffer"} \/ res[r].status = 200

Names(columns) == {columns[i] : i \in DOMAIN columns}

C17_NeverFails ==
    \A r \in Requests :
        (handler[r] \in {"csv", "excel"} /\ outcome[r] = "returned") =>
            res[r].status # 500

\* C18: no field of a row is undefined
C18_AllFieldsDefined ==
    \A r \in Requests :
        RowsBuilt(r) =>
            \A i \in DOMAIN csvData[r] :
                \A f \in DOMAIN csvData[r][i] \ {"Quantity"} :
                    csvData[r][i][f] # Undefined

\* C19: in the row of an order without a shipping address and with a billing
\* address, every shipping field equals the billing field of the same name
C19_ShippingFallsBack ==
    \A r \in Requests :
        (/\ RowsBuilt(r) /\ Len(allOrders[r]) = 1
         /\ ~Has(allOrders[r][1], "shipping_address")
         /\ Has(allOrders[r][1], "billing_address")) =>
            \A i \in DOMAIN csvData[r] :
                LET row == csvData[r][i]
                IN /\ row.First_Name_Shipping = row.First_Name_Billing
                   /\ row.Last_Name_Shipping = row.Last_Name_Billing
                   /\ row.Address_Shipping = row.Address_Billing
                   /\ row.City_Shipping = row.City_Billing
                   /\ row.State_Code_Shipping = row.State_Code_Billing
                   /\ row.Postcode_Shipping = row.Postcode_Billing
                   /\ row.Country_Code_Shipping = row.Country_Code_Billing
                   /\ row.Phone_Shipping = row.Phone_Billing

\* C20: the Quantity of a row is positive: the quantity of the line item when
\* that is positive, 1 when it is absent, zero or negative
C20_QuantityPositive ==
    \A r \in Requests :
        (RowsBuilt(r) /\ Len(allOrders[r]) = 1) =>
            \A i \in DOMAIN csvData[r] :
                LET item == allOrders[r][1].line_items[i]
                IN /\ csvData[r][i].Quantity > 0
                   /\ csvData[r][i].Quantity =
                        (IF Has(item, "quantity") /\ item.quantity > 0
                         THEN item.quantity ELSE 1)

\* C21: Order Date and Paid Date of a row are empty when created_at and
\* processed_at of the order are absent (never the current time), and are
\* the rendering of that timestamp otherwise
C21_AbsentTimestampIsEmpty ==
    \A r \in Requests :
        RowsBuilt(r) =>
            LET pairs == Pairs(allOrders[r])
            IN \A n \in DOMAIN csvData[r] :
                 LET order == pairs[n].order
                     row == csvData[r][n]
                 IN /\ row.Order_Date =
                         (IF Has(order, "created_at") THEN FormatEgypt(order.created_at)
                          ELSE "")
                    /\ row.Paid_Date =
                         (IF Has(order, "processed_at") THEN FormatEgypt(order.processed_at)
                          ELSE "")

\* the fields of a row that are read from the line item
ItemFields == {"SKU", "Item_No", "Item_Name", "Quantity", "Item_Cost", "Discount_Amount"}

\* C22: two rows of the same order agree on every field but the six item
\* fields
C22_OrderFieldsAgree ==
    \A r \in Requests :
        RowsBuilt(r) =>
            LET pairs == Pairs(allOrders[r])
            IN \A m, n \in DOMAIN csvData[r] :
                 pairs[m].order = pairs[n].order =>
                    \A f \in Names(Header) \ ItemFields :
                        csvData[r][m][f] = csvData[r][n][f]

\* the decimal string of the property f of o, "0" when it is absent
Money(o, f) == IF Has(o, f) THEN o[f] ELSE "0"

\* order.total_shipping_price_set.shop_money.amount is present
HasShopMoney(order) ==
    /\ Has(order, "total_shipping_price_set")
    /\ Has(order.total_shipping_price_set, "shop_money")
    /\ Has(order.total_shipping_price_set.shop_money, "amount")

\* C23: every monetary field of a row is its source string unchanged, "0" when
\* the source is absent; the shipping amount is the shop money amount, else
\* total_shipping_price, else "0"
C23_MoneyUnchanged ==
    \A r \in Requests :
        RowsBuilt(r) =>
            LET pairs == Pairs(allOrders[r])
            IN \A n \in DOMAIN csvData[r] :
                 LET order == pairs[n].order
                     item == pairs[n].lineItem
                     row == csvData[r][n]
                 IN /\ row.Cart_Discount_Amount = Money(order, "total_discounts")
                    /\ row.Order_Subtotal_Amount = Money(order, "subtotal_price")
                    /\ row.Order_Total_Amount = Money(order, "total_price")
                    /\ row.Order_Total_Tax_Amount = Money(order, "total_tax")
                    /\ row.Item_Cost = Money(item, "price")
                    /\ row.Discount_Amount = Money(item, "total_discount")
                    /\ row.Order_Shipping_Amount =
                         (IF HasShopMoney(order)
                          THEN order.total_shipping_price_set.shop_money.amount
                          ELSE Money(order, "total_shipping_price"))

\* C23 witness: a row of an order with a shop money amount and another
\* total_shipping_price, and of a line item with a price
C23_Witness ==
    \E r \in Requests :
        /\ RowsBuilt(r) /\ Len(csvData[r]) = 1 /\ HasShopMoney(allOrders[r][1])
        /\ allOrders[r][1].total_shipping_price = "5.00"
        /\ csvData[r][1].Order_Shipping_Amount = "4.50"
        /\ csvData[r][1].Item_Cost = "10.50"

\* C24: Payment Method Title is the first gateway name when the order has a
\* non-empty one and "Unknown" otherwise; Shipping Method Title is the title
\* of the first shipping line when it has one and "Standard" otherwise
C24_MethodTitles ==
    \A r \in Requests :
        RowsBuilt(r) =>
            LET pairs == Pairs(allOrders[r])
            IN \A n \in DOMAIN csvData[r] :
                 LET order == pairs[n].order
                     row == csvData[r][n]
                     named == /\ Has(order, "payment_gateway_names")
                              /\ Len(order.payment_gateway_names) >= 1
                              /\ order.payment_gateway_names[1] # ""
                     titled == /\ Has(order, "shipping_lines")
                               /\ Len(order.shipping_lines) >= 1
                               /\ Has(order.shipping_lines[1], "title")
                 IN /\ row.Payment_Method_Title =
                         (IF named THEN order.payment_gateway_names[1] ELSE "Unknown")
                    /\ row.Shipping_Method_Title =
                         (IF titled THEN order.shipping_lines[1].title ELSE "Standard")

\* C24 witness: a row of an order whose first gateway name is empty and whose
\* first shipping line has a title
C24_Witness ==
    \E r \in Requests :
        /\ RowsBuilt(r) /\ Len(csvData[r]) = 1
        /\ Has(allOrders[r][1], "payment_gateway_names")
        /\ csvData[r][1].Payment_Method_Title = "Unknown"
        /\ csvData[r][1].Shipping_Method_Title = "Pickup"

(***************************************************************************)
(* Further properties of fetchAllOrders                                    *)
(***************************************************************************)
\* C25 as stated: the page limit warning is logged only when the 100th page
\* was full and carried a next cursor
C25_Original ==
    \A r \in Requests :
        warned[r] =>
            /\ Len(responses[r]) = MAX_PAGES
            /\ PageLen(Last(responses[r]).page) = PAGE_LIMIT
            /\ NextCursorSent(Last(responses[r]).link) # ""

\* C25 amended: a fetch that returns has logged the page limit warning exactly
\* when it requested 100 pages, whether the 100th page ended the data or not;
\* a fetch that throws logs none
C25_Amended ==
    \A r \in Requests :
        /\ outcome[r] = "returned" => (warned[r] <=> Len(requests[r]) = MAX_PAGES)
        /\ outcome[r] # "returned" => ~warned[r]

\* C25 witness: a fetch whose 100th page was short or named no next page
\* returned with the warning
C25_Witness ==
    \E r \in Requests :
        /\ outcome[r] = "returned" /\ warned[r] /\ Len(responses[r]) = MAX_PAGES
        /\ \/ PageLen(Last(responses[r]).page) < PAGE_LIMIT
           \/ NextCursorSent(Last(responses[r]).link) = ""

\* the cursor of the i-th request of r ("" : the request carries none)
RequestCursor(r, i) ==
    LET c == ParamsNamed(requests[r][i], "page_info")
    IN IF c = <<>> THEN "" ELSE c[1].v

\* C26: a response from whose next relation no cursor can be extracted ends
\* the pagination; the cursor of every later request is the one extracted
\* from the response just before it and was carried by no earlier request
C26_NoCursorReuse ==
    \A r \in Requests :
        /\ \A i \in DOMAIN responses[r] :
             (IsPage(responses[r][i]) /\ NextLinkMatch(responses[r][i].link) = "") =>
                 Len(requests[r]) = i /\ outcome[r] = "returned"
        /\ \A i \in DOMAIN requests[r] :
             IF i = 1 THEN RequestCursor(r, i) = ""
             ELSE /\ RequestCursor(r, i) # ""
                  /\ RequestCursor(r, i) = NextLinkMatch(responses[r][i - 1].link)
                  /\ \A j \in 1..(i - 1) : RequestCursor(r, j) # RequestCursor(r, i)

\* C26 witness: a full page whose next relation holds no cursor, after a
\* previous relation that holds one, ended a fetch of several pages
C26_Witness ==
    \E r \in Requests :
        /\ Len(responses[r]) >= 2 /\ outcome[r] = "returned"
        /\ PageLen(Last(responses[r]).page) = PAGE_LIMIT
        /\ Last(responses[r]).link = NextWithoutCursor(Len(responses[r]))
        /\ Len(requests[r]) = Len(responses[r])

====
